---------------------------- MODULE Spec2Model ----------------------------
(***************************************************************************)
(* A model of shell.py: the gallery generator that optionally seeds a      *)
(* media directory with downloaded pictures, lists every file under it     *)
(* and renders index.html from the list.                                   *)
(*                                                                         *)
(* Strings are sequences of tokens.  A token is either the separator "/"   *)
(* or a whole file name; file names never contain the separator, so a      *)
(* substring search for a text that starts and ends with "/" gives the     *)
(* same matches on tokens as on characters.                                *)
(***************************************************************************)
EXTENDS Naturals, Sequences, FiniteSets, TLC

VARIABLES
    fs,            \* the file system under the media root: relative path -> kind
    content,       \* the text of <media_dir>/index.html (meaningful when it is a file)
    parentExists,  \* whether the parent directory of media_dir exists
    listRev,       \* the (stable) order in which the OS lists a directory
    prefix,        \* args.prefix
    init_dataset,  \* args.init_dataset
    pc,            \* position in __main__
    err,           \* the exception that ended the run, "none" when there is none
    run,           \* number of the current invocation of the tool
    i,             \* loop index of download_dataset
    stack,         \* call stack of get_paths
    collected,     \* the value returned by get_paths (line 51)
    pictures,      \* the variable pictures of __main__
    outputText,    \* compile_template's outputText
    log,           \* the external operations of this run, in order
    fs0,           \* fs when the current run started
    content0,      \* content when the current run started
    prevDone       \* whether the previous run ended normally

vars == <<fs, content, parentExists, listRev, prefix, init_dataset, pc, err, run,
          i, stack, collected, pictures, outputText, log, fs0, content0, prevDone>>

----------------------------------------------------------------------------
(* Bounds *)

\* largest -init-dataset value explored
MaxCount == 2
\* number of consecutive invocations of the tool explored
MaxRuns == 2
\* depth at which a get_paths recursion is cut off (resource exhaustion);
\* larger than the depth of every tree of the model
MaxRecursion == 4

----------------------------------------------------------------------------
(* Strings and paths *)

Sep == "/"

\* os.path.abspath(args.media_dir)
media_dir == <<Sep, "m">>

\* f"{i}.jpg"
Jpg(n) == ToString(n) \o ".jpg"

\* os.path.join(root, file) for a root that does not end with the separator
Join(root, file) == root \o <<Sep, file>>

\* f"{to}/{i}.jpg"; the variant numbers the files from 1
OutputPathOffByOne(to, n) == to \o <<Sep, Jpg(n + 1)>>
OutputPath(to, n) == to \o <<Sep, Jpg(n)>>

\* whether old occurs in s at position k
MatchAt(s, old, k) ==
    /\ k + Len(old) - 1 <= Len(s)
    /\ \A j \in 1..Len(old) : s[k + j - 1] = old[j]

\* str.replace(old, new) with a non-empty old: every non-overlapping
\* occurrence, scanning from the left
RECURSIVE ReplaceFrom(_, _, _, _)
ReplaceFrom(s, old, new, k) ==
    IF k > Len(s) THEN <<>>
    ELSE IF MatchAt(s, old, k) THEN new \o ReplaceFrom(s, old, new, k + Len(old))
    ELSE <<s[k]>> \o ReplaceFrom(s, old, new, k + 1)

Replace(s, old, new) == ReplaceFrom(s, old, new, 1)

\* elements of the picture list: a plain string, or a dict with the one key "key"
Str(s) == [type |-> "str", value |-> s]
Dict(k) == [type |-> "dict", value |-> k]

----------------------------------------------------------------------------
(* The file system *)

Kinds == {"none", "file", "dir", "other", "link"}

\* the names a directory listing can return, in one listing order
NameOrder == <<"d", "f", "index.html", "m">> \o [n \in 1..MaxCount |-> Jpg(n - 1)]

IndexRel == <<"index.html">>

\* the relative paths the model's trees are built from
Cand == {<<>>, IndexRel, <<"d">>, <<"d", "m">>, <<"d", "m", "f">>}
            \cup {<<Jpg(n)>> : n \in 0..(MaxCount - 1)}

\* the kinds each path may have before the first run
InitKinds(p) ==
    IF p = <<>> THEN {"none", "dir", "other"}
    ELSE IF p = <<"d">> THEN Kinds
    ELSE IF p = <<"d", "m">> THEN {"none", "dir"}
    ELSE IF p \in {IndexRel, <<"d", "m", "f">>, <<Jpg(0)>>} THEN {"none", "file"}
    ELSE {"none"}

Parent(p) == SubSeq(p, 1, Len(p) - 1)

\* only a directory has entries
WellFormed(f) == \A p \in DOMAIN f : p # <<>> /\ f[p] # "none" => f[Parent(p)] = "dir"

KindAt(p) == IF p \in DOMAIN fs THEN fs[p] ELSE "none"

\* a symbolic link of the model points at the media root
LinkTarget == <<>>

\* the names between the separators of a path below media_dir
Comps(path) == [k \in 1..((Len(path) - Len(media_dir)) \div 2) |-> path[Len(media_dir) + 2 * k]]

\* the node a path names once the links on the way are followed
RECURSIVE ResolveFrom(_, _)
ResolveFrom(cur, rest) ==
    IF rest = <<>> THEN cur
    ELSE LET nxt == cur \o <<Head(rest)>>
         IN ResolveFrom(IF KindAt(nxt) = "link" THEN LinkTarget ELSE nxt, Tail(rest))

Resolve(path) == ResolveFrom(<<>>, Comps(path))

\* os.path.exists(path); the variant never finds the directory missing
ExistsAlways(path) == TRUE
Exists(path) == KindAt(Resolve(path)) # "none"

\* os.path.isfile(path), which follows links; the variant takes a link for a leaf
IsFileOrLink(path) ==
    LET c == Comps(path)
    IN \/ KindAt(Resolve(path)) = "file"
       \/ KindAt(ResolveFrom(<<>>, SubSeq(c, 1, Len(c) - 1)) \o <<c[Len(c)]>>) = "link"
IsFile(path) == KindAt(Resolve(path)) = "file"

\* whether os.listdir(path) raises; the variant swallows the error and lists nothing
ListdirRaisesNever(path) == FALSE
ListdirRaises(path) == KindAt(Resolve(path)) # "dir"

Reverse(s) == [k \in 1..Len(s) |-> s[Len(s) + 1 - k]]

\* os.listdir(path) for a listable path
Listdir(path) ==
    LET d == Resolve(path)
        present(n) == KindAt(d \o <<n>>) # "none"
        names == SelectSeq(NameOrder, present)
    IN IF listRev THEN Reverse(names) ELSE names


\* the file system with a regular file at rel (created or overwritten)
WriteFile(f, rel) == [p \in DOMAIN f \cup {rel} |-> IF p = rel THEN "file" ELSE f[p]]

----------------------------------------------------------------------------
(* The rendered page *)

\* template.render(data): the text is a function of the template and of the
\* data handed to it; the template file itself is not part of the sources
Render(src, data) == [template |-> src, pictures |-> data.pictures]

NoText == [template |-> "", pictures |-> <<>>]
OldText == [template |-> "earlier", pictures |-> <<>>]

----------------------------------------------------------------------------
(* __main__ *)

\* the statements of __main__, in program order; the variant seeds after collecting
MainSeedAfterCollect == <<"mkdir", "collect", "seed", "compose", "render", "write">>
Main == <<"mkdir", "seed", "collect", "compose", "render", "write">>

StageAt(k) == IF k > Len(Main) THEN "done" ELSE Main[k]
Pos(stage) == CHOOSE k \in 1..Len(Main) : Main[k] = stage

\* the statement that follows stage; the seeder is called only when
\* args.init_dataset > 0
After(stage) ==
    LET n == StageAt(Pos(stage) + 1)
    IN IF n = "seed" /\ ~(init_dataset > 0) THEN StageAt(Pos(stage) + 2) ELSE n

\* if args.prefix; the variant builds records whatever the prefix
PrefixGivenAlways(p) == TRUE
PrefixGiven(p) == p # <<>>

\* the record built for one picture when a prefix is given
Record(picture) == Dict(Replace(picture, media_dir \o <<Sep>>, prefix))

\* the first frame of get_paths(media_dir)
Frame(dir) == [dir |-> dir, listed |-> FALSE, files |-> <<>>, output |-> <<>>]

\* output.extend(get_paths(fp)); the variant drops the result of the recursive call
ExtendDropped(output, sub) == output
Extend(output, sub) == output \o sub

\* f"https://picsum.photos/1920/1080/?random={i}"
Url(n) == <<"https://picsum.photos/1920/1080/?random=", ToString(n)>>

Entry(op, url, path, ok, wrote) ==
    [op |-> op, url |-> url, path |-> path, ok |-> ok, wrote |-> wrote]

Init ==
    /\ fs \in {f \in [Cand -> Kinds] : WellFormed(f) /\ \A p \in Cand : f[p] \in InitKinds(p)}
    /\ content = IF fs[IndexRel] = "file" THEN OldText ELSE NoText
    /\ parentExists \in IF fs[<<>>] = "none" THEN BOOLEAN ELSE {TRUE}
    /\ listRev \in BOOLEAN
    /\ prefix \in {<<>>, <<"X">>}
    /\ init_dataset \in 0..MaxCount
    /\ pc = "mkdir"
    /\ err = "none"
    /\ run = 1
    /\ i = 0
    /\ stack = <<Frame(media_dir)>>
    /\ collected = <<>>
    /\ pictures = <<>>
    /\ outputText = NoText
    /\ log = <<>>
    /\ fs0 = fs
    /\ content0 = content
    /\ prevDone = FALSE

\* lines 43-46: create the media directory when it does not exist
CheckMediaDir ==
    /\ pc = "mkdir"
    /\ IF Exists(media_dir)
       THEN /\ pc' = After("mkdir")
            /\ UNCHANGED <<fs, err>>
       ELSE IF parentExists
       THEN /\ fs' = [fs EXCEPT ![<<>>] = "dir"]
            /\ pc' = After("mkdir")
            /\ UNCHANGED err
       ELSE /\ pc' = "failed"
            /\ err' = "mkdir"
            /\ UNCHANGED fs
    /\ UNCHANGED <<content, parentExists, listRev, prefix, init_dataset, run, i, stack,
                   collected, pictures, outputText, log, fs0, content0, prevDone>>

\* what one run of curl can do: end with status 0 having written its output,
\* or end with a failure status, with or without an output file left behind
CurlOutcomes(out) ==
    IF KindAt(Parent(Resolve(out))) = "dir" /\ KindAt(Resolve(out)) \in {"none", "file"}
    THEN {[ok |-> TRUE, wrote |-> TRUE], [ok |-> FALSE, wrote |-> FALSE],
          [ok |-> FALSE, wrote |-> TRUE]}
    ELSE {[ok |-> FALSE, wrote |-> FALSE]}

\* subprocess.run(...) is called without check=True: no status raises; the
\* variant is check=True
RaisesOnFailure(ok) == ~ok
Raises(ok) == FALSE

\* lines 15-23: one iteration of the loop of download_dataset
Fetch ==
    /\ pc = "seed"
    /\ i < init_dataset
    /\ LET out == OutputPath(media_dir, i)
       IN \E o \in CurlOutcomes(out) :
            /\ log' = Append(log, Entry("fetch", Url(i), out, o.ok, o.wrote))
            /\ fs' = IF o.wrote THEN WriteFile(fs, Resolve(out)) ELSE fs
            /\ IF Raises(o.ok)
               THEN pc' = "failed" /\ err' = "fetch" /\ UNCHANGED i
               ELSE UNCHANGED <<pc, err>> /\ i' = i + 1
    /\ UNCHANGED <<content, parentExists, listRev, prefix, init_dataset, run, stack,
                   collected, pictures, outputText, fs0, content0, prevDone>>

\* line 15: range(count) is exhausted, download_dataset returns
SeedReturn ==
    /\ pc = "seed"
    /\ ~(i < init_dataset)
    /\ pc' = After("seed")
    /\ UNCHANGED <<fs, content, parentExists, listRev, prefix, init_dataset, err, run, i,
                   stack, collected, pictures, outputText, log, fs0, content0, prevDone>>

Top == stack[Len(stack)]
SetTop(fr) == [stack EXCEPT ![Len(stack)] = fr]

\* line 27: files = os.listdir(root_dir)
ListStep ==
    /\ pc = "collect"
    /\ ~Top.listed
    /\ IF ListdirRaises(Top.dir)
       THEN /\ log' = Append(log, Entry("list", <<>>, Top.dir, FALSE, FALSE))
            /\ pc' = "failed"
            /\ err' = "listdir"
            /\ UNCHANGED stack
       ELSE /\ log' = Append(log, Entry("list", <<>>, Top.dir, TRUE, FALSE))
            /\ stack' = SetTop([Top EXCEPT !.listed = TRUE, !.files = Listdir(Top.dir)])
            /\ UNCHANGED <<pc, err>>
    /\ UNCHANGED <<fs, content, parentExists, listRev, prefix, init_dataset, run, i,
                   collected, pictures, outputText, fs0, content0, prevDone>>

\* lines 28-33: one iteration of the loop over files
VisitStep ==
    /\ pc = "collect"
    /\ Top.listed
    /\ Top.files # <<>>
    /\ LET fp == Join(Top.dir, Head(Top.files))
           rest == [Top EXCEPT !.files = Tail(Top.files)]
       IN IF IsFile(fp)
          THEN /\ stack' = SetTop([rest EXCEPT !.output = Append(rest.output, fp)])
               /\ UNCHANGED <<pc, err>>
          ELSE IF Len(stack) < MaxRecursion
          THEN /\ stack' = Append(SetTop(rest), Frame(fp))
               /\ UNCHANGED <<pc, err>>
          ELSE /\ pc' = "failed"
               /\ err' = "recursion"
               /\ UNCHANGED stack
    /\ UNCHANGED <<fs, content, parentExists, listRev, prefix, init_dataset, run, i,
                   collected, pictures, outputText, log, fs0, content0, prevDone>>

\* line 34, and lines 33 and 51 in the caller: return output
ReturnStep ==
    /\ pc = "collect"
    /\ Top.listed
    /\ Top.files = <<>>
    /\ IF Len(stack) > 1
       THEN /\ LET caller == stack[Len(stack) - 1]
               IN stack' = [SubSeq(stack, 1, Len(stack) - 1) EXCEPT ![Len(stack) - 1] =
                               [caller EXCEPT !.output = Extend(caller.output, Top.output)]]
            /\ UNCHANGED <<pc, collected, pictures>>
       ELSE /\ collected' = Top.output
            /\ pictures' = [k \in 1..Len(Top.output) |-> Str(Top.output[k])]
            /\ pc' = After("collect")
            /\ UNCHANGED stack
    /\ UNCHANGED <<fs, content, parentExists, listRev, prefix, init_dataset, err, run, i,
                   outputText, log, fs0, content0, prevDone>>

\* lines 52-56
Compose ==
    /\ pc = "compose"
    /\ pictures' = IF PrefixGiven(prefix)
                   THEN [k \in 1..Len(pictures) |-> Record(pictures[k].value)]
                   ELSE pictures
    /\ log' = Append(log, Entry("compose", <<>>, <<>>, TRUE, FALSE))
    /\ pc' = After("compose")
    /\ UNCHANGED <<fs, content, parentExists, listRev, prefix, init_dataset, err, run, i,
                   stack, collected, outputText, fs0, content0, prevDone>>

\* lines 58-59 and 6-10: compile_template up to template.render(data)
RenderStep ==
    /\ pc = "render"
    /\ outputText' = Render("template.html", [pictures |-> pictures])
    /\ log' = Append(log, Entry("render", <<>>, <<>>, TRUE, FALSE))
    /\ pc' = After("render")
    /\ UNCHANGED <<fs, content, parentExists, listRev, prefix, init_dataset, err, run, i,
                   stack, collected, pictures, fs0, content0, prevDone>>

\* lines 11-12: open(output, "w") and write
WriteIndex ==
    /\ pc = "write"
    /\ LET dst == Join(media_dir, "index.html")
       IN /\ fs' = WriteFile(fs, Resolve(dst))
          /\ log' = Append(log, Entry("write", <<>>, dst, TRUE, TRUE))
    /\ content' = outputText
    /\ pc' = After("write")
    /\ UNCHANGED <<parentExists, listRev, prefix, init_dataset, err, run, i, stack,
                   collected, pictures, outputText, fs0, content0, prevDone>>

\* the tool is invoked again with the same arguments
Rerun ==
    /\ pc \in {"done", "failed"}
    /\ run < MaxRuns
    /\ run' = run + 1
    /\ pc' = "mkdir"
    /\ err' = "none"
    /\ i' = 0
    /\ stack' = <<Frame(media_dir)>>
    /\ collected' = <<>>
    /\ pictures' = <<>>
    /\ outputText' = NoText
    /\ log' = <<>>
    /\ fs0' = fs
    /\ content0' = content
    /\ prevDone' = (pc = "done")
    /\ UNCHANGED <<fs, content, parentExists, listRev, prefix, init_dataset>>

\* the steps of one run
RunStep ==
    \/ CheckMediaDir
    \/ Fetch
    \/ SeedReturn
    \/ ListStep
    \/ VisitStep
    \/ ReturnStep
    \/ Compose
    \/ RenderStep
    \/ WriteIndex

Next == RunStep \/ Rerun

Spec == Init /\ [][Next]_vars

----------------------------------------------------------------------------
(* Vocabulary of the properties *)

Range(s) == {s[k] : k \in DOMAIN s}
NoDuplicates(s) == \A a, b \in DOMAIN s : a # b => s[a] # s[b]

\* the absolute path of the node rel
AbsPath(rel) == media_dir \o [k \in 1..(2 * Len(rel)) |-> IF k % 2 = 1 THEN "/" ELSE rel[k \div 2]]

\* a tree of regular files and directories only
Plain(f) == f[<<>>] = "dir" /\ \A p \in DOMAIN f : f[p] \in {"none", "file", "dir"}

\* a directory is reachable from itself through a symbolic link
Cyclic(f) == \E p \in DOMAIN f : f[p] = "link"

IsFetch(e) == e.op = "fetch"
IsList(e) == e.op = "list"
Fetches == SelectSeq(log, IsFetch)
Lists == SelectSeq(log, IsList)

\* get_paths has returned to __main__ in this run
Returned == pc \in {"compose", "render", "write", "done"}

\* download_dataset has returned (or was not needed) and index.html is not yet rewritten
Seeded == pc \in {"collect", "compose", "render", "write"}

JpgPath(n) == <<"/", "m", "/", ToString(n) \o ".jpg">>
ExpectedJpgs == {JpgPath(n) : n \in 0..(init_dataset - 1)}
SeederWrote == {Fetches[k].path : k \in {j \in DOMAIN Fetches : Fetches[j].wrote}}

FetchesInOrder ==
    /\ Len(Fetches) = init_dataset
    /\ \A k \in DOMAIN Fetches :
          /\ Fetches[k].url = <<"https://picsum.photos/1920/1080/?random=", ToString(k - 1)>>
          /\ Fetches[k].path = JpgPath(k - 1)

\* no file other than those in written differs from the start of the run
OnlyChanged(written) ==
    \A p \in (DOMAIN fs \cup DOMAIN fs0) \ {<<>>} :
        (IF p \in DOMAIN fs0 THEN fs0[p] ELSE "none") # KindAt(p) => AbsPath(p) \in written

RawList(paths) == [k \in DOMAIN paths |-> [type |-> "str", value |-> paths[k]]]

----------------------------------------------------------------------------
(* C1: on a tree of regular files and directories only, get_paths returns   *)
(* every regular file under the root exactly once and nothing else, and    *)
(* the traversal of such a tree never fails.                               *)
C1_GetPathsExact ==
    Plain(fs) =>
        /\ err \notin {"listdir", "recursion"}
        /\ pc = "compose" =>
              /\ NoDuplicates(collected)
              /\ Range(collected) = {AbsPath(p) : p \in {q \in DOMAIN fs : fs[q] = "file"}}

C1_Witness ==
    /\ pc = "compose"
    /\ Plain(fs)
    /\ fs[<<"d", "m", "f">>] = "file"
    /\ fs[IndexRel] = "file"
    /\ Len(collected) >= 3

(* C2: with a non-empty prefix P every collected path media_dir/r becomes   *)
(* the record {key: P + r}, whatever r is.                                 *)
C2_KeyIsPrefixPlusRelative ==
    (prefix # <<>> /\ pc \in {"render", "write", "done"}) =>
        /\ Len(pictures) = Len(collected)
        /\ \A k \in DOMAIN collected :
              pictures[k] = [type |-> "dict",
                             value |-> prefix \o SubSeq(collected[k], Len(media_dir) + 2,
                                                        Len(collected[k]))]

(* C3: without a prefix the renderer receives, under "pictures", exactly    *)
(* the sequence get_paths returned, as plain strings in the same order.    *)
C3_NoPrefixPassThrough ==
    (prefix = <<>> /\ pc \in {"render", "write", "done"}) =>
        /\ pictures = RawList(collected)
        /\ pc # "render" =>
              outputText = [template |-> "template.html", pictures |-> RawList(collected)]

C3_Witness ==
    /\ prefix = <<>>
    /\ pc = "done"
    /\ Len(collected) >= 2

(* C4: a second run with the same arguments and init-dataset 0 leaves       *)
(* index.html identical to what the first run wrote.                       *)
C4_SecondRunIdentical ==
    (run = 2 /\ prevDone /\ init_dataset = 0 /\ pc = "done") => content = content0

(* C5 as stated: after download_dataset returns, exactly N fetches were     *)
(* issued in index order and the destination holds the N files 0.jpg ..    *)
(* (N-1).jpg written by this call, no other file being touched.            *)
C5_ExactlyNFiles ==
    Seeded =>
        /\ FetchesInOrder
        /\ SeederWrote = ExpectedJpgs
        /\ \A path \in ExpectedJpgs : KindAt(Resolve(path)) = "file"
        /\ OnlyChanged(ExpectedJpgs)

(* C5 amended: exactly N fetches are issued in index order, fetch i for     *)
(* resource i with output <to>/<i>.jpg; the files the seeder creates or    *)
(* overwrites are exactly the <i>.jpg whose fetch produced output, all N   *)
(* of them when every fetch succeeds, and no other file is touched.        *)
C5_FetchesAndWrittenFiles ==
    Seeded =>
        /\ FetchesInOrder
        /\ SeederWrote \subseteq ExpectedJpgs
        /\ \A path \in SeederWrote : KindAt(Resolve(path)) = "file"
        /\ \A k \in DOMAIN Fetches : Fetches[k].ok => Fetches[k].path \in SeederWrote
        /\ (\A k \in DOMAIN Fetches : Fetches[k].ok) => SeederWrote = ExpectedJpgs
        /\ OnlyChanged(SeederWrote)

C5_Witness ==
    /\ Seeded
    /\ init_dataset = 2
    /\ Fetches[1].ok
    /\ ~Fetches[2].ok /\ ~Fetches[2].wrote
    /\ fs0[<<>>] = "dir"

(* C6: a fetch that ends with a failure status never ends the seeder: the   *)
(* remaining indices are still fetched, download_dataset returns and the   *)
(* run goes on to collect and render.                                      *)
C6_FailedFetchNeverStops ==
    /\ err # "fetch"
    /\ pc = "seed" => Len(Fetches) = i /\ ENABLED (Fetch \/ SeedReturn)
    /\ pc \in {"collect", "compose", "render", "write", "done"} => Len(Fetches) = init_dataset
    /\ (pc \in {"done", "failed"} /\ Plain(fs)) => pc = "done"

C6_Witness ==
    /\ pc = "done"
    /\ init_dataset = 2
    /\ Len(Fetches) = 2
    /\ ~Fetches[1].ok
    /\ Fetches[2].ok

\* the media directory is empty, or absent and about to be created
EmptyStart ==
    /\ init_dataset = 0
    /\ \A p \in DOMAIN fs0 \ {<<>>} : fs0[p] = "none"
    /\ fs0[<<>>] = "dir" \/ (fs0[<<>>] = "none" /\ parentExists)

(* C7: on an empty media directory (also one the tool had to create) with   *)
(* init-dataset 0, get_paths returns the empty sequence, the renderer gets *)
(* pictures = empty and the run ends with index.html written.              *)
C7_EmptyGallery ==
    EmptyStart =>
        /\ pc # "failed"
        /\ pc # "done" => ENABLED RunStep
        /\ Returned => collected = <<>> /\ pictures = <<>>
        /\ pc \in {"write", "done"} =>
              outputText = [template |-> "template.html", pictures |-> <<>>]
        /\ pc = "done" => fs[IndexRel] = "file" /\ content = outputText

C7_Witness ==
    /\ EmptyStart
    /\ fs0[<<>>] = "none"
    /\ pc = "done"

Rank(op) ==
    CASE op = "fetch" -> 1
      [] op = "list" -> 2
      [] op = "compose" -> 3
      [] op = "render" -> 4
      [] op = "write" -> 5

(* C8: the steps of a run come in the order seed, collect, compose, render: *)
(* no fetch after a listing, no listing after index.html is composed or    *)
(* written, compose, render and write at most once each, fetches only when *)
(* init-dataset > 0; every file a successful fetch wrote is in the list    *)
(* get_paths returns in that run.                                          *)
C8_LinearOrder ==
    /\ \A a, b \in DOMAIN log : a < b => Rank(log[a].op) <= Rank(log[b].op)
    /\ \A a, b \in DOMAIN log : (a # b /\ Rank(log[a].op) >= 3) => log[a].op # log[b].op
    /\ ~(init_dataset > 0) => Fetches = <<>>
    /\ Returned => \A k \in DOMAIN Fetches : Fetches[k].ok => Fetches[k].path \in Range(collected)

C8_Witness ==
    /\ pc = "done"
    /\ init_dataset = 2
    /\ Fetches[1].ok /\ Fetches[2].ok
    /\ Len(Lists) >= 2

(* C9: once a directory listing of the traversal has failed, the run is     *)
(* aborted: get_paths returns no list, nothing is rendered and index.html  *)
(* is what it was when the run started.                                    *)
C9_ListingFailureAborts ==
    (\E k \in DOMAIN Lists : KindAt(Resolve(Lists[k].path)) # "dir") =>
        /\ pc = "failed" /\ err = "listdir"
        /\ collected = <<>> /\ pictures = <<>>
        /\ \A k \in DOMAIN log : log[k].op \in {"fetch", "list"}
        /\ outputText = NoText
        /\ KindAt(IndexRel) = fs0[IndexRel]
        /\ content = content0

C9_Witness ==
    /\ pc = "failed" /\ err = "listdir"
    /\ fs[<<"d">>] = "other"
    /\ fs[IndexRel] = "file"
    /\ Len(stack) = 2
    /\ stack[1].output # <<>>

\* an upper bound on the steps get_paths still has to take on a tree
\* without links: directories not yet listed, entries not yet visited and
\* calls not yet returned
Work ==
    (2 * Len(NameOrder) + 1) * (Cardinality({p \in DOMAIN fs : fs[p] = "dir"}) - Len(Lists))
        + 2 * Len(stack)
        + 2 * Cardinality({<<d, k>> \in (DOMAIN stack) \X (DOMAIN NameOrder) :
                             k <= Len(stack[d].files)})
        - Cardinality({d \in DOMAIN stack : d < Len(stack)})

C10_Safety ==
    /\ pc = "collect" => ENABLED (ListStep \/ VisitStep \/ ReturnStep)
    /\ ~Cyclic(fs) =>
          /\ err # "recursion"
          /\ NoDuplicates(Lists)
          /\ Returned => {Resolve(Lists[k].path) : k \in DOMAIN Lists}
                            = {p \in DOMAIN fs : fs[p] = "dir"}
    /\ Cyclic(fs) => ~Returned
    /\ err = "recursion" =>
          /\ Cyclic(fs)
          /\ Cardinality({k \in DOMAIN Lists : Resolve(Lists[k].path) = LinkTarget})
                = MaxRecursion

(* C10: on a tree without symlink cycles the traversal always has a next    *)
(* step until it ends, every step that does not end it uses up some of a   *)
(* finite amount of work and each directory is listed exactly once; when a *)
(* directory is reachable from itself through a link the traversal         *)
(* re-enters it at every depth until the recursion is cut off, and         *)
(* get_paths never returns.                                                *)
C10_TerminationAndCycles ==
    /\ []C10_Safety
    /\ [][(pc = "collect" /\ pc' = "collect" /\ ~Cyclic(fs)) => (Work' < Work /\ Work' >= 0)]_vars

C10_Witness ==
    /\ err = "recursion"
    /\ Cyclic(fs)
    /\ Len(stack) = MaxRecursion

=============================================================================
